---- MODULE Spec2Model ----
(***************************************************************************)
(* E-Accounting: the interest/return engine (interestService.js), the      *)
(* transaction ledger (transactionService.js), manual returns             *)
(* (returnsService), investment, status and schedule updates and the       *)
(* scheduled interest sweep (scheduledInterestService.js), over one        *)
(* persistent store of Investment, Transaction and InterestCalculation     *)
(* rows.                                                                   *)
(*                                                                         *)
(* Spec:       the owner of one investment drives the engine, the ledger   *)
(*             (create, delete), investment and status updates, and time.  *)
(* SpecLedger: the engine and the ledger with transaction edits.           *)
(* SpecAccess: another user sends every request for the owner's rows.      *)
(* SpecSched:  the scheduled sweep over three due investments.             *)
(*                                                                         *)
(* Money is an integer number of cents: the Decimal(15,2) columns keep two *)
(* decimals.  Time is an integer; DayMs units make one day.                *)
(***************************************************************************)
EXTENDS Integers, Sequences, FiniteSets, TLC

\* ------------------------------------------------------------------ bounds
MaxTx == 2            \* Transaction rows the requests create in one behaviour
MaxCalc == 2          \* InterestCalculation rows the requests create in one behaviour
MaxTime == 10         \* the clock stops advancing here
DecimalMax == 10000000 \* largest magnitude a money column holds (scaled down)
MaxInflight == 2      \* Calculate-Now calls in flight at once

\* ------------------------------------------------------- program constants
DayMs == 4            \* 1000 * 3600 * 24, scaled: the clock unit is 1/4 day
DaysPerMonth == 30    \* the model calendar: every month has 30 days
PercentUnit == 10     \* a percentage column holds tenths of a percent

NULL == -999999999    \* SQL NULL / JS null in a numeric or timestamp column
Absent == -999999998  \* a field the request body does not carry
T0 == 2 * DayMs       \* the clock at Init
SeedTime == DayMs     \* when the scheduled investments were last calculated
ClockSteps == {2}     \* the clock advances by half a day
DbClockSkew == {0, 1} \* a row's DB-side default now() minus the handler's now

MissingId == 0        \* an id that names no row
Statuses == {"ACTIVE", "COMPLETED", "CANCELLED"}
Frequencies == {"DAILY", "MONTHLY"}
LedgerTypes == {"DEPOSIT", "WITHDRAWAL"}
Amounts == {50000, 100050}
TransactionTypes == {"RETURN", "WITHDRAWAL", "DEPOSIT", "DIVIDEND"}
SignedAmounts == {-150000, -50000, 0, 50000, 100050}
AmountEdits == {NULL, 50000}
TypeEdits == {"NONE", "WITHDRAWAL"}
Percentages == {-150, 10}
NewBalances == {-100, 0, 110000}
ManualAmounts == {-500, 500}
ManualPercentages == {10}
ManualTypes == {"RETURN", "WITHDRAWAL"}
RateEdits == {NULL}
InitialAmountEdits == {Absent, 200000}
BalanceOverrides == {-100, 90000}
SchedInvestments == {1, 2, 3}
FairInvestments == {1, 2}

VARIABLES
  now,           \* the wall clock read by new Date()
  investments,   \* id -> Investment row
  transactions,  \* set of Transaction rows
  calculations,  \* set of InterestCalculation rows
  txSeq,         \* number of Transaction ids handed out
  calcSeq,       \* number of InterestCalculation ids handed out
  last,          \* the last step: operation, whose row it addressed, its outcome
  sched,         \* the scheduled sweep: position in its loop and its summary
  requests,      \* the <<caller, investment id>> pairs the clients send requests for
  inflight       \* Calculate-Now calls that have read their investment and not yet written

vars ==
  <<now, investments, transactions, calculations, txSeq, calcSeq, last, sched, requests,
    inflight>>

\* The persistent store as one value.
Store ==
  [inv |-> investments, tx |-> transactions, calc |-> calculations,
   txSeq |-> txSeq, calcSeq |-> calcSeq]

\* ------------------------------------------------------------ arithmetic
Abs(x) == IF x < 0 THEN -x ELSE x

\* n / d rounded to the nearest integer, halves away from zero (d > 0).
RoundDiv(n, d) ==
  LET a == Abs(n)
      q == a \div d
      r == a % d
      m == IF 2 * r >= d THEN q + 1 ELSE q
  IN IF n < 0 THEN -m ELSE m

RECURSIVE Pow10(_)
Pow10(k) == IF k <= 0 THEN 1 ELSE 10 * Pow10(k - 1)

\* Number of decimal digits of a natural number ("0" has one).
RECURSIVE Digits(_)
Digits(n) == IF n < 10 THEN 1 ELSE 1 + Digits(n \div 10)

\* ---------------------------------------------------- calculation library
\* A day count that includes the day the period starts on.
calculateDaysBetweenInclusive(startDate, endDate) ==
  (endDate - startDate) \div DayMs + 1

\* Math.ceil((end - start) / (1000 * 3600 * 24))
calculateDaysBetween(startDate, endDate) ==
  ((endDate - startDate) + (DayMs - 1)) \div DayMs

CompoundsPerYear(frequency) ==
  CASE frequency = "DAILY" -> 365
    [] frequency = "MONTHLY" -> 12
    [] frequency = "QUARTERLY" -> 4
    [] OTHER -> 1

\* (1 + r/n)^(n * days / 365.25) - 1 in parts per million, by the binomial
\* series to second order: y*x + y*(y-1)/2 * x^2 with x = r/n, y = n*days/365.25.
\* ratePct is the annual rate in percent.
EffectiveRatePpm(ratePct, frequency, days) ==
  LET first == (ratePct * days * 40000) \div 1461
      perPeriod == (ratePct * 10000) \div CompoundsPerYear(frequency)
      second == (first * (first - perPeriod)) \div 2000000
  IN first + second

\* principal * ppm / 1e6 rounded to the cent, without leaving 32 bits.
PpmOf(principal, ppm) ==
  LET a == Abs(principal)
      m == ((a \div 1000) * ppm + 500 + ((a % 1000) * ppm) \div 1000) \div 1000
  IN IF principal < 0 THEN -m ELSE m

\* interest = principal * effectiveRate; newBalance = principal + interest
calculatePeriodInterest(principal, ratePct, frequency, days) ==
  LET interest == PpmOf(principal, EffectiveRatePpm(ratePct, frequency, days))
  IN [interest |-> interest, newBalance |-> principal + interest]

PeriodMs(frequency) ==
  CASE frequency = "DAILY" -> DayMs
    [] frequency = "MONTHLY" -> DaysPerMonth * DayMs
    [] frequency = "QUARTERLY" -> 3 * DaysPerMonth * DayMs
    [] OTHER -> 365 * DayMs

\* from advanced by one period of the frequency
determineNextDueDate(from, frequency) == from + PeriodMs(frequency)

\* ------------------------------------------------------------------ ledger
\* A withdrawal taken with the sign the caller gave it.
getBalanceImpactSigned(type, amount) ==
  CASE type \in {"RETURN", "DIVIDEND", "DEPOSIT"} -> amount
    [] type = "WITHDRAWAL" -> -amount
    [] OTHER -> 0

getBalanceImpact(type, amount) ==
  CASE type \in {"RETURN", "DIVIDEND", "DEPOSIT"} -> amount
    [] type = "WITHDRAWAL" -> -Abs(amount)
    [] OTHER -> 0

\* ------------------------------------------------------ atomic write units
\* prisma.$transaction(async (tx) => { ... }): staged[k] is the store after the
\* k-th write of the callback; failAt = 0 when no write throws, else the index of
\* the write that throws.  A throw rolls every write of the unit back.
TransactionalPartial(before, staged, failAt, err) ==
  IF failAt = 0
    THEN [res |-> "ok", st |-> staged[Len(staged)]]
    ELSE [res |-> err, st |-> IF failAt > 1 THEN staged[failAt - 1] ELSE before]

Transactional(before, staged, failAt, err) ==
  IF failAt = 0
    THEN [res |-> "ok", st |-> staged[Len(staged)]]
    ELSE [res |-> err, st |-> before]

Fail(st, err) == [res |-> err, st |-> st]

\* ------------------------------------------------------- interest engine
\* prisma.investment.findFirst({ where: { id, userId } })
FindInvestment(st, investmentId, userId) ==
  /\ investmentId \in DOMAIN st.inv
  /\ st.inv[investmentId].userId = userId

ensureFixedInvestmentAnyStatus(investment) ==
  IF investment.returnType # "FIXED" THEN "NotFixed"
  ELSE IF investment.interestRate = NULL THEN "NoInterestRate"
  ELSE "ok"

ensureFixedInvestment(investment) ==
  IF investment.returnType # "FIXED" THEN "NotFixed"
  ELSE IF investment.status # "ACTIVE" THEN "NotActive"
  ELSE IF investment.interestRate = NULL THEN "NoInterestRate"
  ELSE "ok"

\* investment.compoundingFrequency || 'MONTHLY'
FrequencyOrDefault(investment) ==
  IF investment.compoundingFrequency = "NONE" THEN "MONTHLY"
  ELSE investment.compoundingFrequency

\* The period always starts at the investment's start date.
PeriodStartAtStartDate(investment) == investment.startDate

\* investment.lastInterestCalculated || investment.startDate
PeriodStart(investment) ==
  IF investment.lastInterestCalculated # NULL
    THEN investment.lastInterestCalculated
    ELSE investment.startDate

\* What calculateInterestNow does before it opens its write unit: it reads the
\* investment and checks it.  "ok" or the error it throws.
calculationChecks(st, clock, investmentId, userId) ==
  IF ~FindInvestment(st, investmentId, userId) THEN "NotFound"
  ELSE
    LET investment == st.inv[investmentId]
        ensured == ensureFixedInvestment(investment)
        days == calculateDaysBetween(PeriodStart(investment), clock)
    IN IF ensured # "ok" THEN ensured
       ELSE IF days <= 0 THEN "NoNewPeriod"
       ELSE "ok"

\* The write unit of calculateInterestNow, on the store as it is when the unit
\* runs, with the values computed from the investment row read before it.
calculationWrites(st, investment, investmentId, clock, skew, fault) ==
  LET periodStart == PeriodStart(investment)
      periodEnd == clock
      days == calculateDaysBetween(periodStart, periodEnd)
      compounding == FrequencyOrDefault(investment)
      principal == investment.currentBalance
      r == calculatePeriodInterest(principal, investment.interestRate, compounding, days)
      transaction ==
        [id |-> st.txSeq + 1, investmentId |-> investmentId, type |-> "RETURN",
         amount |-> r.interest, balance |-> r.newBalance, percentage |-> NULL]
      calculation ==
        [id |-> st.calcSeq + 1, investmentId |-> investmentId,
         calculatedAt |-> clock + skew,
         periodStart |-> periodStart, periodEnd |-> periodEnd,
         principalAmount |-> principal, interestEarned |-> r.interest,
         newBalance |-> r.newBalance, transactionId |-> transaction.id,
         isReverted |-> FALSE, revertedAt |-> NULL, revertedBy |-> "none"]
      s1 == [st EXCEPT !.tx = @ \cup {transaction}, !.txSeq = @ + 1]
      s2 == [s1 EXCEPT !.calc = @ \cup {calculation}, !.calcSeq = @ + 1]
      s3 == [s2 EXCEPT !.inv[investmentId] =
               [@ EXCEPT !.currentBalance = r.newBalance,
                         !.lastInterestCalculated = clock,
                         !.nextInterestDue = determineNextDueDate(clock, compounding)]]
  IN Transactional(st, <<s1, s2, s3>>, fault, "DbError")

\* The whole call with nothing running between its read and its write unit.
calculateInterestNow(st, clock, investmentId, userId, skew, fault) ==
  IF ~FindInvestment(st, investmentId, userId) THEN Fail(st, "NotFound")
  ELSE
    LET investment == st.inv[investmentId]
        ensured == ensureFixedInvestment(investment)
        periodStart == PeriodStart(investment)
        periodEnd == clock
        days == calculateDaysBetween(periodStart, periodEnd)
        compounding == FrequencyOrDefault(investment)
        principal == investment.currentBalance
        r == calculatePeriodInterest(principal, investment.interestRate, compounding, days)
        transaction ==
          [id |-> st.txSeq + 1, investmentId |-> investmentId, type |-> "RETURN",
           amount |-> r.interest, balance |-> r.newBalance, percentage |-> NULL]
        calculation ==
          [id |-> st.calcSeq + 1, investmentId |-> investmentId,
           calculatedAt |-> clock + skew,
           periodStart |-> periodStart, periodEnd |-> periodEnd,
           principalAmount |-> principal, interestEarned |-> r.interest,
           newBalance |-> r.newBalance, transactionId |-> transaction.id,
           isReverted |-> FALSE, revertedAt |-> NULL, revertedBy |-> "none"]
        s1 == [st EXCEPT !.tx = @ \cup {transaction}, !.txSeq = @ + 1]
        s2 == [s1 EXCEPT !.calc = @ \cup {calculation}, !.calcSeq = @ + 1]
        s3 == [s2 EXCEPT !.inv[investmentId] =
                 [@ EXCEPT !.currentBalance = r.newBalance,
                           !.lastInterestCalculated = clock,
                           !.nextInterestDue = determineNextDueDate(clock, compounding)]]
    IN IF ensured # "ok" THEN Fail(st, ensured)
       ELSE IF days <= 0 THEN Fail(st, "NoNewPeriod")
       ELSE Transactional(st, <<s1, s2, s3>>, fault, "DbError")

\* A preview that counts the day the period starts on.
previewInclusive(st, clock, investmentId, userId) ==
  IF ~FindInvestment(st, investmentId, userId) THEN [res |-> "NotFound"]
  ELSE
    LET investment == st.inv[investmentId]
        periodStart == PeriodStart(investment)
        days == calculateDaysBetweenInclusive(periodStart, clock)
        r == calculatePeriodInterest(investment.currentBalance, investment.interestRate,
                                     FrequencyOrDefault(investment), days)
    IN IF investment.returnType # "FIXED" THEN [res |-> "NotFixed"]
       ELSE IF investment.interestRate = NULL THEN [res |-> "NoInterestRate"]
       ELSE [res |-> "ok", days |-> days, interest |-> r.interest,
             newBalance |-> r.newBalance, periodStart |-> periodStart, periodEnd |-> clock]

\* previewInterestCalculationHandler: the response; nothing is written.
previewInterestCalculation(st, clock, investmentId, userId) ==
  IF ~FindInvestment(st, investmentId, userId) THEN [res |-> "NotFound"]
  ELSE
    LET investment == st.inv[investmentId]
        periodStart == PeriodStart(investment)
        days == calculateDaysBetween(periodStart, clock)
        r == calculatePeriodInterest(investment.currentBalance, investment.interestRate,
                                     FrequencyOrDefault(investment), days)
    IN IF investment.returnType # "FIXED" THEN [res |-> "NotFixed"]
       ELSE IF investment.interestRate = NULL THEN [res |-> "NoInterestRate"]
       ELSE [res |-> "ok", days |-> days, interest |-> r.interest,
             newBalance |-> r.newBalance, periodStart |-> periodStart, periodEnd |-> clock]

\* The latest calculation, reverted or not.
LatestCalculationAny(calcs, investmentId, before) ==
  LET live == {c \in calcs : /\ c.investmentId = investmentId
                             /\ (before = NULL \/ c.calculatedAt < before)}
  IN IF live = {} THEN {}
     ELSE {CHOOSE c \in live : \A d \in live : d.calculatedAt <= c.calculatedAt}

\* findFirst({ where: { investmentId, isReverted: false [, calculatedAt < before] },
\*             orderBy: { calculatedAt: 'desc' } })
LatestCalculation(calcs, investmentId, before) ==
  LET live == {c \in calcs : /\ c.investmentId = investmentId
                             /\ ~c.isReverted
                             /\ (before = NULL \/ c.calculatedAt < before)}
  IN IF live = {} THEN {}
     ELSE {CHOOSE c \in live : \A d \in live : d.calculatedAt <= c.calculatedAt}

\* A revert that also wipes the amount the row recorded.
markRevertedAndCleared(calc, clock, userId) ==
  [calc EXCEPT !.isReverted = TRUE, !.revertedAt = clock, !.revertedBy = userId,
               !.interestEarned = 0]

\* data: { isReverted: true, revertedAt: new Date(), revertedBy: userId }
markReverted(calc, clock, userId) ==
  [calc EXCEPT !.isReverted = TRUE, !.revertedAt = clock, !.revertedBy = userId]

revertLastInterestCalculation(st, clock, investmentId, userId, fault) ==
  IF ~FindInvestment(st, investmentId, userId) THEN Fail(st, "NotFound")
  ELSE
    LET investment == st.inv[investmentId]
        found == LatestCalculation(st.calc, investmentId, NULL)
    IN IF found = {} THEN Fail(st, "NoCalculationToRevert")
       ELSE
         LET lastCalc == CHOOSE c \in found : TRUE
             s1 == [st EXCEPT !.calc =
                      (@ \ {lastCalc}) \cup {markReverted(lastCalc, clock, userId)}]
             linked == {t \in st.tx : t.id = lastCalc.transactionId}
             \* tx.transaction.delete throws P2025 when the row is gone
             deleteThrows == lastCalc.transactionId # NULL /\ linked = {}
             s2 == [s1 EXCEPT !.tx = @ \ linked]
             prev == LatestCalculation(s2.calc, investmentId, lastCalc.calculatedAt)
             prevAt == IF prev = {} THEN NULL ELSE (CHOOSE c \in prev : TRUE).calculatedAt
             newBalance == investment.currentBalance - lastCalc.interestEarned
             s3 == [s2 EXCEPT !.inv[investmentId] =
                      [@ EXCEPT !.currentBalance = newBalance,
                                !.lastInterestCalculated = prevAt,
                                !.nextInterestDue =
                                  determineNextDueDate(
                                    IF prevAt # NULL THEN prevAt ELSE clock,
                                    FrequencyOrDefault(investment))]]
             failAt == IF fault = 1 THEN 1
                       ELSE IF deleteThrows THEN 2
                       ELSE fault
             err == IF failAt = 2 /\ deleteThrows THEN "RecordNotFound" ELSE "DbError"
         IN Transactional(st, <<s1, s2, s3>>, failAt, err)

\* amount = current * (pct / 100), kept to the cent
PercentOfBalanceUnscaled(current, pct) == current * pct

PercentOfBalance(current, pct) == RoundDiv(current * pct, 100)

\* pct = current > 0 ? (returnAmount / current) * 100 : 0, in percentage units
ImpliedPercentageAsFraction(returnAmount, current) ==
  IF current > 0 THEN RoundDiv(returnAmount * PercentUnit, current) ELSE 0

ImpliedPercentage(returnAmount, current) ==
  IF current > 0
    THEN LET a == Abs(returnAmount) * 100
             units == (a \div current) * PercentUnit
                        + RoundDiv((a % current) * PercentUnit, current)
         IN IF returnAmount < 0 THEN -units ELSE units
    ELSE 0

\* updateReturnPercentageSchema: percentage in [-100, 1000]
updateReturnPercentage(st, investmentId, userId, pct, fault) ==
  IF pct < -100 \/ pct > 1000 THEN Fail(st, "ValidationError")
  ELSE IF ~FindInvestment(st, investmentId, userId) THEN Fail(st, "NotFound")
  ELSE
    LET investment == st.inv[investmentId]
        current == investment.currentBalance
        amount == PercentOfBalance(current, pct)
        newBalance == current + amount
        transaction ==
          [id |-> st.txSeq + 1, investmentId |-> investmentId, type |-> "RETURN",
           amount |-> amount, balance |-> newBalance,
           percentage |-> pct * PercentUnit]
        s1 == [st EXCEPT !.tx = @ \cup {transaction}, !.txSeq = @ + 1]
        s2 == [s1 EXCEPT !.inv[investmentId].currentBalance = newBalance]
    IN IF investment.returnType # "VARIABLE" THEN Fail(st, "NotVariable")
       ELSE IF investment.status # "ACTIVE" THEN Fail(st, "NotActive")
       ELSE Transactional(st, <<s1, s2>>, fault, "DbError")

\* updateBalanceSchema: newBalance >= 0
updateBalanceCalculateReturn(st, investmentId, userId, nextBalance, fault) ==
  IF nextBalance < 0 THEN Fail(st, "ValidationError")
  ELSE IF ~FindInvestment(st, investmentId, userId) THEN Fail(st, "NotFound")
  ELSE
    LET investment == st.inv[investmentId]
        current == investment.currentBalance
        returnAmount == nextBalance - current
        transaction ==
          [id |-> st.txSeq + 1, investmentId |-> investmentId, type |-> "RETURN",
           amount |-> returnAmount, balance |-> nextBalance,
           percentage |-> ImpliedPercentage(returnAmount, current)]
        s1 == [st EXCEPT !.tx = @ \cup {transaction}, !.txSeq = @ + 1]
        s2 == [s1 EXCEPT !.inv[investmentId].currentBalance = nextBalance]
    IN IF investment.returnType # "VARIABLE" THEN Fail(st, "NotVariable")
       ELSE IF investment.status # "ACTIVE" THEN Fail(st, "NotActive")
       ELSE IF nextBalance < 0 THEN Fail(st, "NegativeNewBalance")
       ELSE Transactional(st, <<s1, s2>>, fault, "DbError")

\* ------------------------------------------------------ transaction ledger
createTransaction(st, userId, investmentId, type, amount, fault) ==
  IF ~FindInvestment(st, investmentId, userId) THEN Fail(st, "NotFound")
  ELSE
    LET investment == st.inv[investmentId]
        currentBalanceNum == investment.currentBalance
        balanceChange == getBalanceImpact(type, amount)
        newBalance == currentBalanceNum + balanceChange
        s1 == IF balanceChange # 0
                THEN [st EXCEPT !.inv[investmentId].currentBalance = newBalance]
                ELSE st
        transaction ==
          [id |-> st.txSeq + 1, investmentId |-> investmentId, type |-> type,
           amount |-> amount, balance |-> newBalance, percentage |-> NULL]
        s2 == [s1 EXCEPT !.tx = @ \cup {transaction}, !.txSeq = @ + 1]
    IN IF investment.status = "CANCELLED" THEN Fail(st, "Cancelled")
       ELSE IF type = "WITHDRAWAL" /\ Abs(amount) > currentBalanceNum
         THEN Fail(st, "InsufficientBalance")
       ELSE IF balanceChange # 0 /\ newBalance < 0 THEN Fail(st, "NegativeBalance")
       ELSE Transactional(st, <<s1, s2>>, fault, "DbError")

\* tx.transaction.findFirst({ where: { id, investment: { userId } } })
FindTransaction(st, transactionId, userId) ==
  {t \in st.tx : t.id = transactionId /\ st.inv[t.investmentId].userId = userId}

\* newAmount = NULL, newType = "NONE": the field is absent from updateData.
updateTransaction(st, userId, transactionId, newAmount, newType, fault) ==
  LET found == FindTransaction(st, transactionId, userId)
  IN IF found = {} THEN Fail(st, "NotFound")
     ELSE
       LET existingTransaction == CHOOSE t \in found : TRUE
           investment == st.inv[existingTransaction.investmentId]
           \* a number is never === the stored Decimal: any given amount counts as changed
           amountGiven == newAmount # NULL
           oldImpact == getBalanceImpact(existingTransaction.type, existingTransaction.amount)
           newImpact == getBalanceImpact(existingTransaction.type, newAmount)
           balanceAdjustment == IF amountGiven THEN newImpact - oldImpact ELSE 0
           prospectiveNewBalance == investment.currentBalance + balanceAdjustment
           updated ==
             [existingTransaction EXCEPT
                !.amount = IF amountGiven THEN newAmount ELSE @,
                !.type = IF newType # "NONE" THEN newType ELSE @,
                !.balance = IF balanceAdjustment # 0 THEN prospectiveNewBalance
                            ELSE investment.currentBalance]
           s1 == [st EXCEPT !.tx = (@ \ {existingTransaction}) \cup {updated}]
           s2 == IF balanceAdjustment # 0
                   THEN [s1 EXCEPT !.inv[existingTransaction.investmentId].currentBalance =
                                     @ + balanceAdjustment]
                   ELSE s1
       IN IF investment.status = "CANCELLED" THEN Fail(st, "Cancelled")
          ELSE IF amountGiven /\ prospectiveNewBalance < 0 THEN Fail(st, "NegativeBalance")
          ELSE Transactional(st, <<s1, s2>>, fault, "DbError")

\* A delete that removes the row and leaves the investment as it is.
deleteTransactionKeepBalance(st, userId, transactionId, fault) ==
  LET found == FindTransaction(st, transactionId, userId)
  IN IF found = {} THEN Fail(st, "NotFound")
     ELSE Transactional(st, <<[st EXCEPT !.tx = @ \ found]>>, fault, "DbError")

deleteTransaction(st, userId, transactionId, fault) ==
  LET found == FindTransaction(st, transactionId, userId)
  IN IF found = {} THEN Fail(st, "NotFound")
     ELSE
       LET transaction == CHOOSE t \in found : TRUE
           investment == st.inv[transaction.investmentId]
           balanceAdjustment == -getBalanceImpact(transaction.type, transaction.amount)
           newBalance == investment.currentBalance + balanceAdjustment
           s1 == [st EXCEPT !.tx = @ \ {transaction}]
           s2 == IF balanceAdjustment # 0
                   THEN [s1 EXCEPT !.inv[transaction.investmentId].currentBalance = newBalance]
                   ELSE s1
       IN IF investment.status = "CANCELLED" THEN Fail(st, "Cancelled")
          ELSE IF newBalance < 0 THEN Fail(st, "NegativeBalance")
          ELSE Transactional(st, <<s1, s2>>, fault, "DbError")

\* ------------------------------------------------------------ manual return
\* investment.currentBalance + returnAmount, where currentBalance is a Prisma
\* Decimal and returnAmount a JS number: "+" takes the Decimal's valueOf(), a
\* string, and concatenates.  balance is in cents, amountE4 in 1/10000 units;
\* the result is what the Decimal(15,2) column stores, or NULL when the text is
\* no decimal number or exceeds the column and the write throws.
ConcatDecimal(balance, amountE4) ==
  LET B == Abs(balance)
      sign == IF balance < 0 THEN -1 ELSE 1
      bWhole == B % 100 = 0
      aWhole == amountE4 % 10000 = 0
      aInt == amountE4 \div 10000
      shift == Pow10(Digits(aInt))
      fracLen == IF B % 10 = 0 THEN 1 ELSE 2
  IN IF amountE4 < 0 THEN NULL                       \* "1000-5"
     ELSE IF ~bWhole /\ ~aWhole THEN NULL            \* "10.5" + "1.05"
     ELSE IF bWhole
       THEN IF (B \div 100) > (DecimalMax \div 100) \div shift THEN NULL
            ELSE sign * ((B \div 100) * shift * 100 + RoundDiv(amountE4, 100))
     ELSE sign * (B + RoundDiv(aInt * Pow10(2 - fracLen), shift))

\* mode = "amount": value is the amount in cents; mode = "percentage": value is
\* the percentage.  manualReturnSchema admits exactly one of the two.
addManualReturn(st, userId, investmentId, mode, value, type, fault) ==
  IF mode = "percentage" /\ (value < -100 \/ value > 100) THEN Fail(st, "ValidationError")
  ELSE IF ~FindInvestment(st, investmentId, userId) THEN Fail(st, "NotFound")
  ELSE
    LET investment == st.inv[investmentId]
        current == investment.currentBalance
        returnAmountE4 == IF mode = "percentage" THEN current * value ELSE value * 100
        \* (returnAmount / currentBalance) * 100 is not finite on a zero balance
        percentageThrows == mode = "amount" /\ current = 0
        newBalance == ConcatDecimal(current, returnAmountE4)
        transaction ==
          [id |-> st.txSeq + 1, investmentId |-> investmentId, type |-> type,
           amount |-> RoundDiv(returnAmountE4, 100), balance |-> NULL,
           percentage |-> IF mode = "percentage" THEN value * PercentUnit
                          ELSE ImpliedPercentage(value, current)]
        s1 == [st EXCEPT !.tx = @ \cup {transaction}, !.txSeq = @ + 1]
        s2 == [s1 EXCEPT !.inv[investmentId].currentBalance = newBalance]
        failAt == IF fault = 1 \/ percentageThrows THEN 1
                  ELSE IF newBalance = NULL THEN 2
                  ELSE fault
    IN IF investment.status = "CANCELLED" THEN Fail(st, "Cancelled")
       ELSE IF value = 0 THEN Fail(st, "InvalidInput")
       ELSE IF returnAmountE4 < 0 /\ Abs(returnAmountE4) > current * 100
         THEN Fail(st, "InvalidAmount")
       ELSE Transactional(st, <<s1, s2>>, failAt, "DbError")

\* --------------------------------------------------- investment management
updateInvestmentStatus(st, userId, investmentId, status, fault) ==
  IF ~FindInvestment(st, investmentId, userId) THEN Fail(st, "NotFound")
  ELSE IF st.inv[investmentId].status = status THEN Fail(st, "InvalidStatusChange")
  ELSE IF fault # 0 THEN Fail(st, "DbError")
  ELSE [res |-> "ok", st |-> [st EXCEPT !.inv[investmentId].status = status]]

\* balanceUpdateSchema: currentBalance >= 0.  One investment.update; no
\* transaction is written.
updateInvestmentBalance(st, userId, investmentId, currentBalance, fault) ==
  IF currentBalance < 0 THEN Fail(st, "ValidationError")
  ELSE IF ~FindInvestment(st, investmentId, userId) THEN Fail(st, "NotFound")
  ELSE IF st.inv[investmentId].status = "CANCELLED" THEN Fail(st, "Cancelled")
  ELSE IF fault # 0 THEN Fail(st, "DbError")
  ELSE [res |-> "ok", st |-> [st EXCEPT !.inv[investmentId].currentBalance = currentBalance]]

\* returnType = "NONE", interestRate = Absent, initialAmount = Absent: the field
\* is absent from updateData; every field updateData carries is written.
updateInvestment(st, userId, investmentId, returnType, interestRate, initialAmount, fault) ==
  IF ~FindInvestment(st, investmentId, userId) THEN Fail(st, "NotFound")
  ELSE
    LET existingInvestment == st.inv[investmentId]
        rateFalsy == interestRate \in {Absent, NULL, 0}
        nextRate == IF returnType = "VARIABLE" THEN NULL
                    ELSE IF interestRate = Absent THEN existingInvestment.interestRate
                    ELSE interestRate
        nextType == IF returnType = "NONE" THEN existingInvestment.returnType ELSE returnType
        nextInitial == IF initialAmount = Absent THEN existingInvestment.initialAmount
                       ELSE initialAmount
    IN IF returnType = "FIXED" /\ rateFalsy /\ existingInvestment.returnType # "FIXED"
         THEN Fail(st, "InterestRateRequired")
       ELSE IF fault # 0 THEN Fail(st, "DbError")
       ELSE [res |-> "ok",
             st |-> [st EXCEPT !.inv[investmentId] =
                       [@ EXCEPT !.returnType = nextType, !.interestRate = nextRate,
                                 !.initialAmount = nextInitial]]]

\* prisma.investment.update({ where: { id: investmentId }, data: {...} }):
\* the row is addressed by id alone; a missing row throws P2025.
updateInvestmentScheduleHandler(st, userId, investmentId, autoCalculate, frequency, fault) ==
  IF investmentId \notin DOMAIN st.inv THEN Fail(st, "RecordNotFound")
  ELSE IF fault # 0 THEN Fail(st, "DbError")
  ELSE [res |-> "ok",
        st |-> [st EXCEPT !.inv[investmentId] =
                  [@ EXCEPT !.autoCalculateInterest = autoCalculate,
                            !.compoundingFrequency = frequency]]]

\* ------------------------------------------------------- scheduled sweep
\* A selection that does not look at the status.
DueInvestmentsAnyStatus(st, clock) ==
  {i \in DOMAIN st.inv : /\ st.inv[i].returnType = "FIXED"
                         /\ st.inv[i].autoCalculateInterest
                         /\ st.inv[i].nextInterestDue # NULL
                         /\ st.inv[i].nextInterestDue <= clock}

\* findMany({ where: { returnType: 'FIXED', autoCalculateInterest: true,
\*                     status: 'ACTIVE', nextInterestDue: { lte: now } } })
DueInvestments(st, clock) ==
  {i \in DOMAIN st.inv : /\ st.inv[i].returnType = "FIXED"
                         /\ st.inv[i].autoCalculateInterest
                         /\ st.inv[i].status = "ACTIVE"
                         /\ st.inv[i].nextInterestDue # NULL
                         /\ st.inv[i].nextInterestDue <= clock}

\* The query has no orderBy: the rows come back in any order.
Orderings(S) ==
  {q \in [1..Cardinality(S) -> S] : \A x \in S : \E k \in DOMAIN q : q[k] = x}

\* results = { processed: investments.length, succeeded: 0, failed: 0, errors: [] }
startSweep(batch, clock) ==
  [pc |-> "running", batch |-> batch, idx |-> 0, startedAt |-> clock,
   results |-> [processed |-> Len(batch), succeeded |-> 0, failed |-> 0, errors |-> <<>>],
   outcomes |-> <<>>]

\* A throw of calculateInterestNow leaves the loop.
processNextAbort(s, investmentId, res) ==
  IF res = "ok"
    THEN [s EXCEPT !.idx = @ + 1, !.results.succeeded = @ + 1,
                   !.outcomes = Append(@, res)]
    ELSE [s EXCEPT !.idx = Len(s.batch), !.results.failed = @ + 1,
                   !.results.errors = Append(@, [investmentId |-> investmentId, error |-> res]),
                   !.outcomes = Append(@, res)]

\* One turn of the for loop: try { await calculateInterestNow } catch { ... }.
\* outcomes remembers what each call returned.
processNext(s, investmentId, res) ==
  IF res = "ok"
    THEN [s EXCEPT !.idx = @ + 1, !.results.succeeded = @ + 1,
                   !.outcomes = Append(@, res)]
    ELSE [s EXCEPT !.idx = @ + 1, !.results.failed = @ + 1,
                   !.results.errors = Append(@, [investmentId |-> investmentId, error |-> res]),
                   !.outcomes = Append(@, res)]

\* ------------------------------------------------------------------ requests
\* Whom a request by userId addresses: a row of their own, somebody else's, or none.
TargetInvestment(userId, investmentId) ==
  IF investmentId \notin DOMAIN investments THEN "missing"
  ELSE IF investments[investmentId].userId = userId THEN "own"
  ELSE "foreign"

TargetTransaction(userId, transactionId) ==
  LET rows == {t \in transactions : t.id = transactionId}
  IN IF rows = {} THEN "missing"
     ELSE IF \E t \in rows : investments[t.investmentId].userId = userId THEN "own"
     ELSE "foreign"

\* The investment a transaction id leads to, MissingId when there is no such row.
InvestmentOf(transactionId) ==
  LET rows == {t \in transactions : t.id = transactionId}
  IN IF rows = {} THEN MissingId ELSE (CHOOSE t \in rows : TRUE).investmentId

Callers == {rq[1] : rq \in requests}
TransactionIds == {MissingId} \cup (1..MaxTx)

\* The store holds what the unit committed.
Commit(st) ==
  /\ investments' = st.inv
  /\ transactions' = st.tx
  /\ calculations' = st.calc
  /\ txSeq' = st.txSeq
  /\ calcSeq' = st.calcSeq

\* The response is sent.
Respond(op, target, investmentId, r) ==
  /\ r.st.txSeq > txSeq => r.st.txSeq <= MaxTx
  /\ r.st.calcSeq > calcSeq => r.st.calcSeq <= MaxCalc
  /\ Commit(r.st)
  /\ last' = [op |-> op, target |-> target, investmentId |-> investmentId, res |-> r.res]
  /\ UNCHANGED <<now, sched, requests, inflight>>

CalculateInterestNow ==
  \E <<u, i>> \in requests, skew \in DbClockSkew, fault \in 0..3 :
    Respond("calculate", TargetInvestment(u, i), i,
            calculateInterestNow(Store, now, i, u, skew, fault))

\* A Calculate-Now call runs up to its write unit: it has read the investment,
\* checked it and taken the time; a check that fails is answered at once.
ReadForCalculation ==
  /\ Len(inflight) < MaxInflight
  /\ \E <<u, i>> \in requests :
       LET checked == calculationChecks(Store, now, i, u)
       IN IF checked = "ok"
            THEN /\ inflight' = Append(inflight, [investmentId |-> i, userId |-> u,
                                                  investment |-> investments[i],
                                                  clock |-> now])
                 /\ last' = [op |-> "calculateRead", target |-> TargetInvestment(u, i),
                             investmentId |-> i, res |-> "ok"]
            ELSE /\ inflight' = inflight
                 /\ last' = [op |-> "calculate", target |-> TargetInvestment(u, i),
                             investmentId |-> i, res |-> checked]
  /\ UNCHANGED <<now, investments, transactions, calculations, txSeq, calcSeq, sched,
                 requests>>

\* The write unit of a call in flight runs, on the store as it is by then.
WriteCalculation ==
  \E k \in DOMAIN inflight, skew \in DbClockSkew, fault \in 0..3 :
    LET call == inflight[k]
        r == calculationWrites(Store, call.investment, call.investmentId, call.clock,
                               skew, fault)
    IN /\ r.st.txSeq > txSeq => r.st.txSeq <= MaxTx
       /\ r.st.calcSeq > calcSeq => r.st.calcSeq <= MaxCalc
       /\ Commit(r.st)
       /\ inflight' = SubSeq(inflight, 1, k - 1) \o SubSeq(inflight, k + 1, Len(inflight))
       /\ last' = [op |-> "calculate", target |-> "own",
                   investmentId |-> call.investmentId, res |-> r.res]
       /\ UNCHANGED <<now, sched, requests>>

PreviewInterestCalculation ==
  \E <<u, i>> \in requests :
    /\ last' = [op |-> "preview", target |-> TargetInvestment(u, i), investmentId |-> i,
                res |-> previewInterestCalculation(Store, now, i, u).res]
    /\ UNCHANGED <<now, investments, transactions, calculations, txSeq, calcSeq, sched,
                   requests, inflight>>

RevertLastCalculation ==
  \E <<u, i>> \in requests, fault \in 0..3 :
    Respond("revert", TargetInvestment(u, i), i,
            revertLastInterestCalculation(Store, now, i, u, fault))

UpdateReturnPercentage ==
  \E <<u, i>> \in requests, pct \in Percentages, fault \in 0..1 :
    Respond("updatePercentage", TargetInvestment(u, i), i,
            updateReturnPercentage(Store, i, u, pct, fault))

UpdateBalanceCalculateReturn ==
  \E <<u, i>> \in requests, nb \in NewBalances, fault \in 0..1 :
    Respond("updateBalance", TargetInvestment(u, i), i,
            updateBalanceCalculateReturn(Store, i, u, nb, fault))

CreateTransaction ==
  \E <<u, i>> \in requests, type \in LedgerTypes, amount \in Amounts,
     fault \in 0..1 :
    Respond("createTransaction", TargetInvestment(u, i), i,
            createTransaction(Store, u, i, type, amount, fault))

UpdateTransaction ==
  \E u \in Callers, t \in TransactionIds, amount \in AmountEdits, type \in TypeEdits,
     fault \in 0..1 :
    Respond("updateTransaction", TargetTransaction(u, t), InvestmentOf(t),
            updateTransaction(Store, u, t, amount, type, fault))

DeleteTransaction ==
  \E u \in Callers, t \in TransactionIds, fault \in 0..1 :
    Respond("deleteTransaction", TargetTransaction(u, t), InvestmentOf(t),
            deleteTransaction(Store, u, t, fault))

AddManualReturn ==
  \E <<u, i>> \in requests, type \in ManualTypes, fault \in 0..1 :
    \/ \E amount \in ManualAmounts :
         Respond("manualReturn", TargetInvestment(u, i), i,
                 addManualReturn(Store, u, i, "amount", amount, type, fault))
    \/ \E pct \in ManualPercentages :
         Respond("manualReturn", TargetInvestment(u, i), i,
                 addManualReturn(Store, u, i, "percentage", pct, type, fault))

UpdateInvestment ==
  \E <<u, i>> \in requests, rate \in RateEdits, initial \in InitialAmountEdits :
    Respond("updateInvestment", TargetInvestment(u, i), i,
            updateInvestment(Store, u, i, "NONE", rate, initial, 0))

UpdateInvestmentBalance ==
  \E <<u, i>> \in requests, balance \in BalanceOverrides :
    Respond("updateInvestmentBalance", TargetInvestment(u, i), i,
            updateInvestmentBalance(Store, u, i, balance, 0))

UpdateInvestmentStatus ==
  \E <<u, i>> \in requests, status \in Statuses :
    Respond("updateStatus", TargetInvestment(u, i), i,
            updateInvestmentStatus(Store, u, i, status, 0))

UpdateInvestmentSchedule ==
  \E <<u, i>> \in requests, auto \in BOOLEAN, f \in Frequencies :
    Respond("updateSchedule", TargetInvestment(u, i), i,
            updateInvestmentScheduleHandler(Store, u, i, auto, f, 0))

AdvanceTime ==
  \E dt \in ClockSteps :
    /\ now + dt <= MaxTime
    /\ now' = now + dt
    /\ last' = [op |-> "tick", target |-> "none", investmentId |-> MissingId, res |-> "ok"]
    /\ UNCHANGED <<investments, transactions, calculations, txSeq, calcSeq, sched, requests,
                   inflight>>

\* cron '5 * * * *' fires processScheduledInterestCalculations.
SchedStart ==
  /\ sched.pc \in {"idle", "done"}
  /\ \E batch \in Orderings(DueInvestments(Store, now)) :
       sched' = startSweep(batch, now)
  /\ last' = [op |-> "sweepStart", target |-> "none", investmentId |-> MissingId, res |-> "ok"]
  /\ UNCHANGED <<now, investments, transactions, calculations, txSeq, calcSeq, requests,
                 inflight>>

SchedStep ==
  /\ sched.pc = "running"
  /\ sched.idx < Len(sched.batch)
  /\ \E skew \in DbClockSkew, fault \in 0..3 :
       LET i == sched.batch[sched.idx + 1]
           r == calculateInterestNow(Store, now, i, investments[i].userId, skew, fault)
       IN /\ Commit(r.st)
          /\ sched' = processNext(sched, i, r.res)
          /\ last' = [op |-> "sweep", target |-> "own", investmentId |-> i, res |-> r.res]
  /\ UNCHANGED <<now, requests, inflight>>

\* return results
SchedReturn ==
  /\ sched.pc = "running"
  /\ sched.idx >= Len(sched.batch)
  /\ sched' = [sched EXCEPT !.pc = "done"]
  /\ last' = [op |-> "sweepReturn", target |-> "none", investmentId |-> MissingId, res |-> "ok"]
  /\ UNCHANGED <<now, investments, transactions, calculations, txSeq, calcSeq, requests,
                 inflight>>

\* An owner pauses and resumes investments while a sweep is under way.
PauseOrResume ==
  \E i \in DOMAIN investments, status \in {"ACTIVE", "COMPLETED"} :
    Respond("updateStatus", "own", i,
            updateInvestmentStatus(Store, investments[i].userId, i, status, 0))

\* --------------------------------------------------------------- the system
\* createInvestment: currentBalance = initialAmount, status ACTIVE, interestRate
\* only when FIXED; the schedule columns keep their defaults.
NewInvestment(userId, returnType, initialAmount, interestRate, startDate) ==
  [userId |-> userId, initialAmount |-> initialAmount, currentBalance |-> initialAmount,
   returnType |-> returnType,
   interestRate |-> IF returnType = "FIXED" THEN interestRate ELSE NULL,
   startDate |-> startDate, status |-> "ACTIVE",
   compoundingFrequency |-> "NONE", lastInterestCalculated |-> NULL,
   nextInterestDue |-> NULL, autoCalculateInterest |-> FALSE]

SchedIdle ==
  [pc |-> "idle", batch |-> <<>>, idx |-> 0, startedAt |-> NULL,
   results |-> [processed |-> 0, succeeded |-> 0, failed |-> 0, errors |-> <<>>],
   outcomes |-> <<>>]

NoRequest == [op |-> "none", target |-> "none", investmentId |-> MissingId, res |-> "none"]

EmptyStore(inv) ==
  [inv |-> inv, tx |-> {}, calc |-> {}, txSeq |-> 0, calcSeq |-> 0]

\* One investment of u1, FIXED or VARIABLE, just created.
Init ==
  /\ now = T0
  /\ \E returnType \in {"FIXED", "VARIABLE"} :
       investments = (1 :> NewInvestment("u1", returnType, 100000, 12, 0))
  /\ transactions = {}
  /\ calculations = {}
  /\ txSeq = 0
  /\ calcSeq = 0
  /\ last = NoRequest
  /\ sched = SchedIdle
  /\ requests = {<<"u1", 1>>}
  /\ inflight = <<>>

Next ==
  \/ CalculateInterestNow
  \/ RevertLastCalculation
  \/ CreateTransaction
  \/ DeleteTransaction
  \/ AdvanceTime

Spec == Init /\ [][Next]_vars

\* The owner edits the investment, its status and its schedule between
\* calculations and variable updates.
NextProfile ==
  \/ CalculateInterestNow
  \/ PreviewInterestCalculation
  \/ UpdateReturnPercentage
  \/ UpdateBalanceCalculateReturn
  \/ UpdateInvestment
  \/ UpdateInvestmentStatus
  \/ UpdateInvestmentSchedule
  \/ AdvanceTime

SpecProfile == Init /\ [][NextProfile]_vars

\* Calculate-Now calls whose read and write unit are separate steps, with ledger
\* creates and other calls running in between.
NextRace ==
  \/ ReadForCalculation
  \/ WriteCalculation
  \/ CreateTransaction
  \/ AdvanceTime

SpecRace == Init /\ [][NextRace]_vars

\* The engine and the ledger with transaction edits, at one instant.
NextLedger ==
  \/ CalculateInterestNow
  \/ RevertLastCalculation
  \/ UpdateReturnPercentage
  \/ UpdateBalanceCalculateReturn
  \/ CreateTransaction
  \/ UpdateTransaction
  \/ DeleteTransaction

SpecLedger == Init /\ [][NextLedger]_vars

\* Variable updates and ledger creates and deletes on one investment, at one
\* instant, next to Calculate-Now.
NextManual ==
  \/ CalculateInterestNow
  \/ UpdateReturnPercentage
  \/ UpdateBalanceCalculateReturn
  \/ CreateTransaction
  \/ DeleteTransaction

SpecManual == Init /\ [][NextManual]_vars

\* The owner overrides the balance and changes the status between
\* calculations and ledger creates.
NextOverride ==
  \/ CalculateInterestNow
  \/ CreateTransaction
  \/ UpdateInvestmentBalance
  \/ UpdateInvestmentStatus
  \/ AdvanceTime

SpecOverride == Init /\ [][NextOverride]_vars

\* The owner switched auto-calculation on (DAILY) and calculated once at SeedTime.
Seeded(st, investmentId) ==
  LET owner == st.inv[investmentId].userId
      s1 == updateInvestmentScheduleHandler(st, owner, investmentId, TRUE, "DAILY", 0).st
  IN calculateInterestNow(s1, SeedTime, investmentId, owner, 0, 0).st

RECURSIVE SeedAll(_, _)
SeedAll(st, ids) ==
  IF ids = {} THEN st
  ELSE LET i == CHOOSE x \in ids : \A y \in ids : x <= y
       IN SeedAll(Seeded(st, i), ids \ {i})

\* Three FIXED investments, each due for the sweep at T0.
InitSched ==
  LET fresh == [i \in SchedInvestments |-> NewInvestment("u1", "FIXED", 100000, 12, 0)]
      st == SeedAll(EmptyStore(fresh), SchedInvestments)
  IN /\ now = T0
     /\ investments = st.inv
     /\ transactions = st.tx
     /\ calculations = st.calc
     /\ txSeq = st.txSeq
     /\ calcSeq = st.calcSeq
     /\ last = NoRequest
     /\ sched = SchedIdle
     /\ requests = {<<"u1", i>> : i \in SchedInvestments}
     /\ inflight = <<>>

NextSched ==
  \/ SchedStart
  \/ SchedStep
  \/ SchedReturn
  \/ PauseOrResume
  \/ AdvanceTime

SpecSched == InitSched /\ [][NextSched]_vars

\* Investment 1 was calculated at SeedTime with auto-calculation on and is due
\* at T0; investment 2 was just created and has never been calculated.
InitFair ==
  LET fresh == [i \in FairInvestments |-> NewInvestment("u1", "FIXED", 100000, 12, 0)]
      st == Seeded(EmptyStore(fresh), 1)
  IN /\ now = T0
     /\ investments = st.inv
     /\ transactions = st.tx
     /\ calculations = st.calc
     /\ txSeq = st.txSeq
     /\ calcSeq = st.calcSeq
     /\ last = NoRequest
     /\ sched = SchedIdle
     /\ requests = {<<"u1", i>> : i \in FairInvestments}
     /\ inflight = <<>>

NextFair ==
  \/ UpdateInvestmentSchedule
  \/ SchedStart
  \/ SchedStep
  \/ SchedReturn
  \/ AdvanceTime

\* The cron job keeps firing and each sweep runs to its end; time advances; a
\* calculation that can succeed again and again is not failed by the database
\* every time.
SpecFair ==
  /\ InitFair
  /\ [][NextFair]_vars
  /\ WF_vars(SchedStart)
  /\ WF_vars(SchedStep)
  /\ WF_vars(SchedReturn)
  /\ WF_vars(AdvanceTime)
  /\ SF_vars(SchedStep /\ last'.res = "ok")

\* u1's investment holds a deposit and one calculation; u2 sends every request,
\* for that investment and for an id that names none.
InitAccess ==
  LET fresh == (1 :> NewInvestment("u1", "FIXED", 100000, 12, 0))
      s1 == createTransaction(EmptyStore(fresh), "u1", 1, "DEPOSIT", 50000, 0).st
      st == calculateInterestNow(s1, SeedTime, 1, "u1", 0, 0).st
  IN /\ now = T0
     /\ investments = st.inv
     /\ transactions = st.tx
     /\ calculations = st.calc
     /\ txSeq = st.txSeq
     /\ calcSeq = st.calcSeq
     /\ last = NoRequest
     /\ sched = SchedIdle
     /\ requests = {<<"u2", 1>>, <<"u2", MissingId>>}
     /\ inflight = <<>>

NextAccess ==
  \/ CalculateInterestNow
  \/ RevertLastCalculation
  \/ UpdateReturnPercentage
  \/ UpdateBalanceCalculateReturn
  \/ CreateTransaction
  \/ UpdateTransaction
  \/ DeleteTransaction
  \/ AddManualReturn
  \/ UpdateInvestment
  \/ UpdateInvestmentBalance
  \/ UpdateInvestmentStatus
  \/ UpdateInvestmentSchedule
  \/ AdvanceTime

SpecAccess == InitAccess /\ [][NextAccess]_vars

\* ------------------------------------------------------------------ properties
\* C1: after any sequence of engine and ledger operations, every investment's
\* currentBalance equals its initialAmount plus the signed sum of the amounts of
\* its existing transactions (RETURN, DEPOSIT, DIVIDEND add; WITHDRAWAL subtracts
\* its absolute value).
BalanceIdentity ==
  \A i \in DOMAIN investments :
    LET own == {t \in transactions : t.investmentId = i}
        Signed[S \in SUBSET own] ==
          IF S = {} THEN 0
          ELSE LET t == CHOOSE x \in S : TRUE
               IN (CASE t.type \in {"RETURN", "DEPOSIT", "DIVIDEND"} -> t.amount
                     [] t.type = "WITHDRAWAL" -> -Abs(t.amount)
                     [] OTHER -> 0) + Signed[S \ {t}]
    IN investments[i].currentBalance = investments[i].initialAmount + Signed[own]

\* C2: no operation ever commits a state in which an investment's currentBalance
\* is below zero.
NoNegativeBalance ==
  \A i \in DOMAIN investments : investments[i].currentBalance >= 0

\* C3: when a write inside the unit of Calculate-Now or of Revert-Last-Calculation
\* fails, the investments, transactions and calculations after the call are those
\* before it.
AtomicEngineWrites ==
  [][(/\ last'.op \in {"calculate", "revert"}
      /\ last'.res \in {"DbError", "RecordNotFound"})
       => UNCHANGED <<investments, transactions, calculations>>]_vars

\* C3 case: a Revert whose second write (deleting the linked transaction) threw
\* after the first (marking the calculation reverted) was staged.
RevertFailedMidUnit ==
  /\ last.op = "revert"
  /\ last.res = "RecordNotFound"
  /\ \E c \in calculations : ~c.isReverted /\ c.investmentId = last.investmentId

\* C4: after a successful Calculate-Now there is exactly one new calculation; its
\* newBalance = principalAmount + interestEarned = the investment's currentBalance,
\* its transactionId names a RETURN transaction of the investment with
\* amount = interestEarned and balance = newBalance, its periodStart is the previous
\* lastInterestCalculated (startDate if that was null), and the investment has
\* lastInterestCalculated = periodEnd = now and
\* nextInterestDue = nextDueDate(now, frequency).
CalculatePostconditions ==
  [][(last'.op = "calculate" /\ last'.res = "ok") =>
       LET i == last'.investmentId
           before == investments[i]
           after == investments'[i]
           new == calculations' \ calculations
       IN /\ Cardinality(new) = 1
          /\ \A c \in new :
               /\ c.investmentId = i
               /\ c.newBalance = c.principalAmount + c.interestEarned
               /\ c.newBalance = after.currentBalance
               /\ \E t \in transactions' :
                    /\ t.id = c.transactionId
                    /\ t.investmentId = i
                    /\ t.type = "RETURN"
                    /\ t.amount = c.interestEarned
                    /\ t.balance = c.newBalance
               /\ c.periodStart = IF before.lastInterestCalculated # NULL
                                    THEN before.lastInterestCalculated
                                    ELSE before.startDate
               /\ c.periodEnd = now
               /\ after.lastInterestCalculated = now
               /\ after.nextInterestDue =
                    determineNextDueDate(
                      now,
                      IF before.compoundingFrequency = "NONE" THEN "MONTHLY"
                      ELSE before.compoundingFrequency)]_vars

\* C4 case: a second successful Calculate-Now, whose period starts at the first.
SecondCalculationDone ==
  /\ last.op = "calculate"
  /\ last.res = "ok"
  /\ \E c \in calculations : ~c.isReverted /\ c.periodEnd = now /\ c.periodStart = T0

\* C5: in every reachable state in which Calculate-Now succeeds, a
\* Revert-Last-Calculation issued immediately afterwards succeeds, restores
\* currentBalance to its value before the calculation, sets lastInterestCalculated
\* back to the value it had before the calculation, and leaves no transaction with
\* the id the calculation linked to.
RevertIsExactInverse ==
  \A i \in DOMAIN investments : \A skew \in DbClockSkew :
    LET owner == investments[i].userId
        calc == calculateInterestNow(Store, now, i, owner, skew, 0)
        linked == calc.st.tx \ transactions
        rev == revertLastInterestCalculation(calc.st, now, i, owner, 0)
    IN calc.res = "ok" =>
         /\ rev.res = "ok"
         /\ rev.st.inv[i].currentBalance = investments[i].currentBalance
         /\ rev.st.inv[i].lastInterestCalculated = investments[i].lastInterestCalculated
         /\ \A t \in linked : \A x \in rev.st.tx : x.id # t.id

\* C6: Revert-Last-Calculation on an investment with no non-reverted calculation
\* fails with "no calculation to revert" and changes nothing.
RevertRequiresCalculation ==
  [][(/\ last'.op = "revert"
      /\ last'.target = "own"
      /\ \A c \in calculations : c.investmentId = last'.investmentId => c.isReverted)
       => /\ last'.res = "NoCalculationToRevert"
          /\ UNCHANGED <<investments, transactions, calculations>>]_vars

\* C6 case: a Revert refused when every calculation of the investment had already
\* been reverted.
RevertRefusedAllReverted ==
  /\ last.op = "revert"
  /\ last.res = "NoCalculationToRevert"
  /\ \E c \in calculations : c.investmentId = last.investmentId
  /\ \A c \in calculations : c.isReverted

\* C7: a Calculate-Now on an investment that is FIXED, ACTIVE and has a rate, and
\* whose lastInterestCalculated is now, fails with "no new period" and changes
\* nothing.
NoDoubleCalculation ==
  [][(/\ last'.op = "calculate"
      /\ last'.target = "own"
      /\ investments[last'.investmentId].returnType = "FIXED"
      /\ investments[last'.investmentId].status = "ACTIVE"
      /\ investments[last'.investmentId].interestRate # NULL
      /\ investments[last'.investmentId].lastInterestCalculated = now)
       => /\ last'.res = "NoNewPeriod"
          /\ UNCHANGED <<investments, transactions, calculations>>]_vars

\* C7 case: a second Calculate-Now refused at the instant of the first, whose
\* calculation and transaction are still there.
SecondCalculationRefused ==
  /\ last.op = "calculate"
  /\ last.res = "NoNewPeriod"
  /\ \E c \in calculations :
       /\ ~c.isReverted
       /\ c.periodEnd = now
       /\ investments[c.investmentId].lastInterestCalculated = now
       /\ \E t \in transactions : t.id = c.transactionId

\* C8: when a sweep returns, processed is the number of investments selected,
\* succeeded + failed = processed, errors holds exactly one entry for each
\* investment whose calculation failed and none for the others, every selected
\* investment was attempted, and every investment whose calculation succeeded
\* holds that calculation.
SchedulerIsolation ==
  sched.pc = "done" =>
    LET n == Len(sched.batch)
        results == sched.results
    IN /\ results.processed = n
       /\ results.succeeded + results.failed = results.processed
       /\ Len(results.errors) = results.failed
       /\ Len(sched.outcomes) = n
       /\ \A k \in 1..n :
            /\ Cardinality({e \in DOMAIN results.errors :
                              results.errors[e].investmentId = sched.batch[k]})
                 = IF sched.outcomes[k] = "ok" THEN 0 ELSE 1
            /\ sched.outcomes[k] = "ok" =>
                 \E c \in calculations :
                   /\ c.investmentId = sched.batch[k]
                   /\ ~c.isReverted
                   /\ c.periodEnd >= sched.startedAt
                   /\ investments[sched.batch[k]].lastInterestCalculated = c.periodEnd

\* C8 case: a sweep over three investments whose second calculation failed and
\* whose first and third succeeded.
SecondOfThreeFailed ==
  /\ sched.pc = "done"
  /\ Len(sched.batch) = 3
  /\ sched.outcomes = <<"ok", "DbError", "ok">>
  /\ sched.results.succeeded = 2
  /\ sched.results.failed = 1

\* C9: every operation invoked by a caller who does not own the target investment
\* changes no state and fails with NotFound, the outcome of the same call on an
\* investment that does not exist (or with the validation error its body earns
\* before any row is read).
OwnershipEnforced ==
  [][last'.target = "foreign"
       => /\ last'.res \in {"NotFound", "ValidationError"}
          /\ UNCHANGED <<investments, transactions, calculations>>]_vars

\* C10: Calculate-Now on an investment that is not FIXED, not ACTIVE or has no
\* interestRate, and either variable update on an investment that is not VARIABLE
\* or not ACTIVE, returns an error and changes nothing.
PreconditionViolationsWriteNothing ==
  [][(/\ last'.target = "own"
      /\ \/ /\ last'.op = "calculate"
            /\ \/ investments[last'.investmentId].returnType # "FIXED"
               \/ investments[last'.investmentId].status # "ACTIVE"
               \/ investments[last'.investmentId].interestRate = NULL
         \/ /\ last'.op \in {"updatePercentage", "updateBalance"}
            /\ \/ investments[last'.investmentId].returnType # "VARIABLE"
               \/ investments[last'.investmentId].status # "ACTIVE")
       => /\ last'.res \in {"NotFixed", "NotActive", "NoInterestRate", "NotVariable",
                            "ValidationError"}
          /\ UNCHANGED <<investments, transactions, calculations>>]_vars

\* C10 case: Calculate-Now refused on a FIXED, ACTIVE investment whose interestRate
\* was cleared by an investment update.
CalculationRefusedNoRate ==
  /\ last.op = "calculate"
  /\ last.res = "NoInterestRate"
  /\ investments[last.investmentId].returnType = "FIXED"
  /\ investments[last.investmentId].status = "ACTIVE"
  /\ investments[last.investmentId].interestRate = NULL

\* C11: a successful update by percentage p on balance b adds exactly one
\* transaction, a RETURN of b*p/100 (to the cent) whose balance snapshot is
\* b + b*p/100 and whose percentage is p, sets currentBalance to that snapshot
\* and leaves the interest calculations alone.
UpdateByPercentagePostconditions ==
  \A <<u, i>> \in requests, pct \in Percentages :
    LET r == updateReturnPercentage(Store, i, u, pct, 0)
        b == investments[i].currentBalance
        created == r.st.tx \ transactions
    IN r.res = "ok" =>
         /\ transactions \subseteq r.st.tx
         /\ Cardinality(created) = 1
         /\ \A t \in created :
              /\ t.type = "RETURN"
              /\ t.investmentId = i
              /\ 2 * Abs(100 * t.amount - b * pct) <= 100
              /\ t.balance = b + t.amount
              /\ t.percentage = pct * PercentUnit
              /\ r.st.inv[i].currentBalance = b + t.amount
         /\ r.st.calc = calculations
         /\ r.st.calcSeq = calcSeq

\* 10% on a balance of 1000.00 gave a return of 100.00 and a balance of 1100.00.
TenPercentOnThousand ==
  /\ last.op = "updatePercentage"
  /\ last.res = "ok"
  /\ investments[1].currentBalance = 110000
  /\ calculations = {}
  /\ \E t \in transactions :
       /\ t.type = "RETURN"
       /\ t.amount = 10000
       /\ t.balance = 110000
       /\ t.percentage = 10 * PercentUnit

\* C12: a successful update by balance to n >= 0 on balance b adds exactly one
\* transaction, a RETURN of n - b with balance snapshot n and percentage
\* (n - b) / b * 100 (0 on a zero balance), sets currentBalance to n and leaves
\* the interest calculations alone; a negative n is refused and writes nothing.
UpdateByBalancePostconditions ==
  \A <<u, i>> \in requests, n \in NewBalances :
    LET r == updateBalanceCalculateReturn(Store, i, u, n, 0)
        b == investments[i].currentBalance
        created == r.st.tx \ transactions
    IN /\ n < 0 => r.res # "ok" /\ r.st = Store
       /\ r.res = "ok" =>
            /\ transactions \subseteq r.st.tx
            /\ Cardinality(created) = 1
            /\ \A t \in created :
                 /\ t.type = "RETURN"
                 /\ t.investmentId = i
                 /\ t.amount = n - b
                 /\ t.balance = n
                 /\ b > 0 =>
                      2 * Abs(t.percentage * b - (n - b) * 100 * PercentUnit) <= b
                 /\ b = 0 => t.percentage = 0
            /\ r.st.inv[i].currentBalance = n
            /\ r.st.calc = calculations
            /\ r.st.calcSeq = calcSeq

\* A target of 1100.00 on a zero balance was recorded with percentage 0.
BalanceSetFromZero ==
  /\ last.op = "updateBalance"
  /\ last.res = "ok"
  /\ investments[1].currentBalance = 110000
  /\ calculations = {}
  /\ \E t \in transactions :
       /\ t.type = "RETURN"
       /\ t.amount = 110000
       /\ t.balance = 110000
       /\ t.percentage = 0

UpdateAppliesImpactDifference ==
  [][(last'.op = "updateTransaction" /\ last'.res = "ok") =>
       \A t \in transactions : \A e \in transactions' :
         (e.id = t.id /\ e # t) =>
           LET i == t.investmentId
               impact(x) == CASE x.type \in {"RETURN", "DEPOSIT", "DIVIDEND"} -> x.amount
                              [] x.type = "WITHDRAWAL" -> -Abs(x.amount)
                              [] OTHER -> 0
           IN /\ investments'[i].currentBalance - investments[i].currentBalance
                   = impact(e) - impact(t)
              /\ e.balance = investments'[i].currentBalance]_vars

CancelledIsTerminal ==
  [][\A i \in DOMAIN investments :
       investments[i].status = "CANCELLED" =>
         /\ i \in DOMAIN investments'
         /\ investments'[i] = investments[i]
         /\ {t \in transactions' : t.investmentId = i}
              = {t \in transactions : t.investmentId = i}
         /\ {c \in calculations' : c.investmentId = i}
              = {c \in calculations : c.investmentId = i}]_vars

\* C17: no step changes the initialAmount of an existing investment.
InitialAmountNeverChanges ==
  [][\A i \in DOMAIN investments :
       i \in DOMAIN investments' =>
         investments'[i].initialAmount = investments[i].initialAmount]_vars

\* C18: the interest calculations are an append-only audit trail: a step never
\* removes a row, only a calculation adds one (not reverted), and the only
\* change to an existing row is a revert marking a row that was not reverted as
\* reverted, with the time and the user of the revert; a reverted row stays as
\* it is.
AuditTrailAppendOnly ==
  [][/\ \A c \in calculations :
          \E d \in calculations' :
            /\ d.id = c.id
            /\ \/ d = c
               \/ /\ last'.op = "revert"
                  /\ ~c.isReverted
                  /\ d.isReverted
                  /\ d.revertedAt = now
                  /\ d.revertedBy = investments[c.investmentId].userId
                  /\ [d EXCEPT !.isReverted = FALSE, !.revertedAt = NULL,
                               !.revertedBy = "none"] = c
     /\ \A d \in calculations' :
          /\ \A e \in calculations' : e.id = d.id => e = d
          /\ (\A c \in calculations : c.id # d.id) =>
               /\ last'.op \in {"calculate", "sweep"}
               /\ ~d.isReverted]_vars

\* A calculation was appended after an earlier one had been reverted, which is
\* still there and still reverted.
CalculatedAfterRevert ==
  /\ last.op = "calculate"
  /\ last.res = "ok"
  /\ \E c \in calculations, d \in calculations :
       /\ c.id < d.id
       /\ c.isReverted
       /\ c.revertedBy = "u1"
       /\ ~d.isReverted

\* C19: a revert acts on the calculation of the investment that is not
\* reverted and has the greatest calculatedAt, one per call; it succeeds
\* whenever such a calculation exists (a database failure aside), so that k
\* reverts in a row succeed exactly when k such calculations exist.
RevertSucceedsPerLiveCalculation ==
  [][(/\ last'.op = "revert"
      /\ last'.target = "own"
      /\ last'.res # "DbError") =>
       LET i == last'.investmentId
           live == {c \in calculations : c.investmentId = i /\ ~c.isReverted}
           liveAfter == {c \in calculations' : c.investmentId = i /\ ~c.isReverted}
       IN /\ last'.res = "ok" <=> live # {}
          /\ last'.res = "ok" =>
               \E c \in live :
                 /\ \A d \in live : d.calculatedAt <= c.calculatedAt
                 /\ liveAfter = live \ {c}]_vars

NoLostUpdate ==
  inflight = <<>> =>
    \A i \in DOMAIN investments :
      LET own == {t \in transactions : t.investmentId = i}
          Total[S \in SUBSET own] ==
            IF S = {} THEN 0
            ELSE LET t == CHOOSE x \in S : TRUE
                 IN (IF t.type = "WITHDRAWAL" THEN -Abs(t.amount) ELSE t.amount)
                      + Total[S \ {t}]
      IN investments[i].currentBalance - investments[i].initialAmount = Total[own]

\* C22: of the Calculate-Now calls that overlap on an investment at most one
\* takes effect: no two calculations of an investment that are not reverted
\* have the same periodStart.
OneCalculationPerPeriodStart ==
  \A c \in calculations, d \in calculations :
    (/\ c.investmentId = d.investmentId
     /\ c.periodStart = d.periodStart
     /\ ~c.isReverted
     /\ ~d.isReverted) => c = d

RevertRestoresSchedule ==
  [][(last'.op = "revert" /\ last'.target = "own" /\ last'.res = "ok") =>
       LET i == last'.investmentId
           after == investments'[i]
           frequency == IF after.compoundingFrequency = "NONE" THEN "MONTHLY"
                        ELSE after.compoundingFrequency
           remaining == {c \in calculations' : c.investmentId = i /\ ~c.isReverted}
       IN IF remaining = {}
            THEN /\ after.lastInterestCalculated = NULL
                 /\ after.nextInterestDue = determineNextDueDate(now, frequency)
            ELSE \E c \in remaining :
                   /\ \A d \in remaining : d.calculatedAt <= c.calculatedAt
                   /\ after.lastInterestCalculated = c.calculatedAt
                   /\ after.nextInterestDue = determineNextDueDate(c.calculatedAt, frequency)
                   /\ after.lastInterestCalculated = c.periodEnd]_vars

\* C25: in every state an investment has an interestRate exactly when its
\* returnType is FIXED.
InterestRateIffFixed ==
  \A i \in DOMAIN investments :
    investments[i].interestRate # NULL <=> investments[i].returnType = "FIXED"

\* C26: a step that changes an investment's currentBalance also creates,
\* edits or deletes a transaction of that investment.
BalanceChangesWithTransaction ==
  [][\A i \in DOMAIN investments :
       (i \in DOMAIN investments'
        /\ investments'[i].currentBalance # investments[i].currentBalance) =>
         {t \in transactions' : t.investmentId = i}
           # {t \in transactions : t.investmentId = i}]_vars


\* C27: Revert-Last-Calculation is rejected, and changes nothing, when a
\* transaction was recorded on the investment after the calculation it
\* would undo.
RevertRejectedAfterLaterTransaction ==
  [][(/\ last'.op = "revert"
      /\ last'.target = "own"
      /\ LET i == last'.investmentId
             live == {c \in calculations : c.investmentId = i /\ ~c.isReverted}
         IN \E c \in live :
              /\ \A d \in live : d.calculatedAt <= c.calculatedAt
              /\ c.transactionId # NULL
              /\ \E t \in transactions :
                   t.investmentId = i /\ t.id > c.transactionId)
       => /\ last'.res # "ok"
          /\ UNCHANGED <<investments, transactions, calculations>>]_vars


\* C28: Calculate-Now is rejected, and changes nothing, when less than one
\* full day has elapsed since the investment's lastInterestCalculated.
CalculateRejectedWithinSameDay ==
  [][(/\ last'.op = "calculate"
      /\ last'.target = "own"
      /\ investments[last'.investmentId].lastInterestCalculated # NULL
      /\ now - investments[last'.investmentId].lastInterestCalculated < DayMs)
       => /\ last'.res # "ok"
          /\ UNCHANGED <<investments, transactions, calculations>>]_vars


\* C29: every non-reverted calculation's transactionId refers to an existing
\* RETURN transaction of the same investment whose amount is the
\* calculation's interestEarned.
LiveCalculationHasItsReturn ==
  \A c \in calculations :
    ~c.isReverted =>
      \E t \in transactions :
        /\ t.id = c.transactionId
        /\ t.investmentId = c.investmentId
        /\ t.type = "RETURN"
        /\ t.amount = c.interestEarned


\* C30: under repeated sweeps and advancing time, an investment that stays
\* FIXED, ACTIVE, with an interestRate and autoCalculateInterest = true is
\* eventually calculated by the scheduler.
AutoEligible(i) ==
  /\ investments[i].returnType = "FIXED"
  /\ investments[i].status = "ACTIVE"
  /\ investments[i].interestRate # NULL
  /\ investments[i].autoCalculateInterest

SweptOk(i) == last.op = "sweep" /\ last.investmentId = i /\ last.res = "ok"

EligibleEventuallySwept ==
  \A i \in FairInvestments : <>[]AutoEligible(i) => <>SweptOk(i)

====
